---------------------------- MODULE Spec2Model ----------------------------
(***************************************************************************)
(* Token-level labelling-function analysis (skweak/analysis.py, class      *)
(* LFAnalysis).  The engine holds a token-by-source matrix L of label      *)
(* indices (0 = null label "O" = not labelled), a sparse copy of it, and   *)
(* an inverted index from label value to the rows that contain it.  The    *)
(* public statistics are ratios of counts over that matrix.                *)
(*                                                                         *)
(* Indices are 0-based as in the code: row i, column j of L is             *)
(* self.L[i+1][j+1] of the TLA+ sequences.                                 *)
(***************************************************************************)
EXTENDS Integers, Sequences, FiniteSets, TLC

VARIABLES
    engine,      \* the LFAnalysis object under analysis (its fields)
    engine0,     \* history: the object as __init__ left it
    call,        \* the public method called last, with its argument
    result,      \* what that call returned (or the exception it raised)
    env,         \* the caller's objects handed to __init__, and the process
    built        \* the engines constructed so far, per construction request

vars == <<engine, engine0, call, result, env, built>>

-----------------------------------------------------------------------------
(* Bounds of the model.                                                    *)

\* largest number of tokens (rows of L) in the corpus
MaxRows == 2

\* largest number of tokens of a corpus handed to the constructor
MaxTokens == 3

\* The engines analysed: the sources (columns of L) in the order __init__
\* resolved them, the label vocabulary as _get_token_level_labels left it
\* ("O" at index 0), and the largest corpus, in tokens, the engine is
\* built from (the three-source engine on one token fewer).
Configs ==
    {[sources |-> <<"LF1", "LF2">>,
      labels  |-> <<"O", "PER", "ORG", "DATE">>,
      rows    |-> MaxRows],
     [sources |-> <<"LF1", "LF2", "LF3">>,
      labels  |-> <<"O", "PER", "ORG">>,
      rows    |-> MaxRows - 1]}

None == "None"

-----------------------------------------------------------------------------
(* Floating point results of numpy's true division.                        *)

NaN == [kind |-> "nan", num |-> 0, den |-> 0]
Inf == [kind |-> "inf", num |-> 0, den |-> 0]
MaxFloat == [kind |-> "maxfloat", num |-> 0, den |-> 0]
Rat(n, d) == [kind |-> "num", num |-> n, den |-> d]
Zero == Rat(0, 1)

\* numpy: x / y on floats; 0/0 is nan and n/0 is inf (a warning, no error)
Div(n, d) ==
    IF d = 0 THEN (IF n = 0 THEN NaN ELSE Inf)
    ELSE Rat(n, d)

\* np.nan_to_num: nan becomes 0.0, inf becomes the largest float
nan_to_num(x) ==
    IF x = NaN THEN Zero ELSE IF x = Inf THEN MaxFloat ELSE x

IsNumber(x) == x.kind = "num"

\* comparisons of finite results, by cross multiplication
RatEq(x, n, d) == IsNumber(x) /\ d # 0 /\ x.num * d = n * x.den
RatLeq(x, y) == IsNumber(x) /\ IsNumber(y) /\ x.num * y.den <= y.num * x.den
IsZero(x) == IsNumber(x) /\ x.num = 0

-----------------------------------------------------------------------------
(* Small helpers on sets and sequences.                                    *)

Range(s) == {s[k] : k \in DOMAIN s}

SetMax(S) == CHOOSE x \in S : \A y \in S : y <= x

RECURSIVE sorted(_)
\* Python's sorted(list(set(xs))) for a set of integers
sorted(S) ==
    IF S = {} THEN <<>>
    ELSE LET m == CHOOSE x \in S : \A y \in S : x <= y
         IN  <<m>> \o sorted(S \ {m})

-----------------------------------------------------------------------------
(* The matrix and its sparse copy.                                         *)

NRows(self) == Len(self.L)
NCols(self) == Len(self.sources)
RowIdx(self) == 0 .. (NRows(self) - 1)
ColIdx(self) == 0 .. (NCols(self) - 1)
At(self, i, j) == self.L[i + 1][j + 1]

\* sparse.csr_matrix(self.L): the stored entries are the nonzero cells
csr_matrix(L) ==
    {[r |-> i - 1, c |-> j - 1, v |-> L[i][j]] :
        <<i, j>> \in {p \in (DOMAIN L) \X (1 .. Len(L[1])) : L[p[1]][p[2]] # 0}}

\* self.L.max()
LMax(self) == SetMax({At(self, i, j) : i \in RowIdx(self), j \in ColIdx(self)})

-----------------------------------------------------------------------------
(* Analysis helpers (indicator vectors), lines 388-434.                    *)

\* stored entries of row i / of column j of the sparse matrix
RowEntries(self, i) == {e \in self._L_sparse : e.r = i}
ColEntries(self, j) == {e \in self._L_sparse : e.c = j}

\* self._L_sparse.max(axis=1): the largest entry of a row, implicit zeros
\* included
RowMax(self, i) ==
    LET stored == {e.v : e \in RowEntries(self, i)}
    IN  SetMax(IF Cardinality(stored) < NCols(self) THEN stored \cup {0}
                                                     ELSE stored)

\* faulty variant: the row maximum is compared with every cell of the
\* row, the indicator (L != 0) forgotten
_conflicted_data_points_dense(self) ==
    [i \in RowIdx(self) |->
        IF \E j \in ColIdx(self) : RowMax(self, i) # At(self, i, j)
        THEN 1 ELSE 0]

\* z_i = 1 if some stored entry of row i differs from the row maximum:
\* max(diags(rowmax) @ (L != 0) != L, axis=1)
_conflicted_data_points(self) ==
    [i \in RowIdx(self) |->
        IF \E e \in RowEntries(self, i) : RowMax(self, i) * 1 # e.v
        THEN 1 ELSE 0]

RECURSIVE SumVals(_)
\* the sum of the values of a set of stored entries
SumVals(E) ==
    IF E = {} THEN 0
    ELSE LET e == CHOOSE x \in E : TRUE IN e.v + SumVals(E \ {e})

\* z_i = 1 if the entries of row i do not sum to 0
_covered_data_points(self) ==
    [i \in RowIdx(self) |->
        IF SumVals(RowEntries(self, i)) # 0 THEN 1 ELSE 0]

\* z_i = 1 if value label_val (nonzero) is stored somewhere in row i
_covered_by_label(self, label_val) ==
    [i \in RowIdx(self) |->
        IF \E e \in RowEntries(self, i) : e.v = label_val THEN 1 ELSE 0]

\* c_j = number of rows where column j holds label_val (nonzero)
_covered_by_label_counts(self, label_val) ==
    [j \in ColIdx(self) |->
        Cardinality({e \in ColEntries(self, j) : e.v = label_val})]

\* faulty variant: more than two nonzero entries
_overlapped_data_points_gt2(self) ==
    [i \in RowIdx(self) |->
        IF Cardinality(RowEntries(self, i)) > 2 THEN 1 ELSE 0]

\* z_i = 1 if row i has more than one nonzero entry
_overlapped_data_points(self) ==
    [i \in RowIdx(self) |->
        IF Cardinality(RowEntries(self, i)) > 1 THEN 1 ELSE 0]

\* faulty variant: the explicit zero stored for flat position 0 is dropped
FlatData_nonzero(self, label) ==
    {f \in 1 .. (NRows(self) * NCols(self) - 1) :
        At(self, f \div NCols(self), f % NCols(self)) = label}

\* The inverted index m = csr_matrix((cols, (L.ravel(), cols))): row
\* `label` of m stores the flat position of every cell of L holding
\* `label`, the position itself being the stored datum (position 0 is
\* stored as an explicit zero and is kept).
FlatData(self, label) ==
    {f \in 0 .. (NRows(self) * NCols(self) - 1) :
        At(self, f \div NCols(self), f % NCols(self)) = label}

\* np.unique(np.unravel_index(row.data, L.shape)[0]) for every row of m;
\* element label+1 of the sequence is the set of rows holding `label`
_get_row_indices_with_labels(self) ==
    [label1 \in 1 .. (LMax(self) + 1) |->
        {f \div NCols(self) : f \in FlatData(self, label1 - 1)}]

\* np.sum(z[indices]) for an indicator vector z and a set of rows
SumAt(z, indices) == Cardinality({i \in indices : z[i] = 1})

-----------------------------------------------------------------------------
(* Public statistics, lines 52-317.  A DataFrame is modelled by its column *)
(* names and its rows: a function from row key to the sequence of cells.   *)

DataFrame(columns, rows) == [columns |-> columns, rows |-> rows]

\* faulty variant: labels without occurrences are not skipped
skip_label_O_only(self, label_idx) ==
    self.labels[label_idx + 1] = "O"

\* the test `label == 'O' or len(indices) == 0` of every per-label loop
skip_label(self, label_idx) ==
    \/ self.labels[label_idx + 1] = "O"
    \/ Cardinality(self.label_row_indices[label_idx + 1]) = 0

\* the labels a per-label loop keeps: enumerate(self.label_row_indices)
KeptLabelIdx(self) ==
    {label_idx \in 0 .. (Len(self.label_row_indices) - 1) :
        ~ skip_label(self, label_idx)}

\* result dict of a per-label loop: label name -> cells[label_idx]
PerLabel(self, cells) ==
    [label \in {self.labels[k + 1] : k \in KeptLabelIdx(self)} |->
        cells[CHOOSE k \in KeptLabelIdx(self) : self.labels[k + 1] = label]]

label_overlap(self) ==
    LET overlaps == _overlapped_data_points(self)
        cells == [label_idx \in KeptLabelIdx(self) |->
            LET indices == self.label_row_indices[label_idx + 1]
            IN  <<Div(SumAt(overlaps, indices), Cardinality(indices))>>]
    IN  DataFrame(<<"overlap">>, PerLabel(self, cells))

label_conflict(self) ==
    LET conflicts == _conflicted_data_points(self)
        cells == [label_idx \in KeptLabelIdx(self) |->
            LET indices == self.label_row_indices[label_idx + 1]
            IN  <<Div(SumAt(conflicts, indices), Cardinality(indices))>>]
    IN  DataFrame(<<"conflict">>, PerLabel(self, cells))

\* faulty variant: the values are read from the dense column
lf_target_labels_dense(self) ==
    [lf \in {self.sources[i + 1] : i \in ColIdx(self)} |->
        LET i == CHOOSE k \in ColIdx(self) : self.sources[k + 1] = lf
        IN  sorted({At(self, r, i) : r \in RowIdx(self)})]

\* {sources[i]: sorted(list(set(L_sparse[:, i].data))) for every column i}
lf_target_labels(self) ==
    [lf \in {self.sources[i + 1] : i \in ColIdx(self)} |->
        LET i == CHOOSE k \in ColIdx(self) : self.sources[k + 1] = lf
        IN  sorted({e.v : e \in ColEntries(self, i)})]

RECURSIVE SumOver(_, _)
SumOver(f, S) ==
    IF S = {} THEN 0
    ELSE LET x == CHOOSE y \in S : TRUE IN f[x] + SumOver(f, S \ {x})

\* faulty variant: np.sum(label_coverages), the union (>= 1) forgotten
total_token_counts_sum(self) ==
    LET targets == lf_target_labels(self)
        count(lf) ==
            LET label_coverages ==
                    [i \in RowIdx(self) |->
                        Cardinality({k \in DOMAIN targets[lf] :
                            _covered_by_label(self, targets[lf][k])[i] = 1})]
            IN  SumOver(label_coverages, RowIdx(self))
    IN  [j \in ColIdx(self) |->
            count(CHOOSE lf \in DOMAIN targets : self.sources2idx[lf] = j)]

\* total_token_counts of lf_coverages(agg=True): per column, the number of
\* rows holding some target label of the column's source
total_token_counts(self) ==
    LET targets == lf_target_labels(self)
        count(lf) ==
            LET label_coverages ==
                    [i \in RowIdx(self) |->
                        Cardinality({k \in DOMAIN targets[lf] :
                            _covered_by_label(self, targets[lf][k])[i] = 1})]
            IN  Cardinality({i \in RowIdx(self) : label_coverages[i] >= 1})
    IN  [j \in ColIdx(self) |->
            count(CHOOSE lf \in DOMAIN targets : self.sources2idx[lf] = j)]

lf_coverages(self, agg) ==
    IF agg
    THEN LET covered_token_counts ==
                 [j \in ColIdx(self) |-> Cardinality(ColEntries(self, j))]
             total == total_token_counts(self)
         IN  DataFrame(self.sources,
                 [r \in {0} |->
                     [j1 \in 1 .. NCols(self) |->
                         Div(covered_token_counts[j1 - 1], total[j1 - 1])]])
    ELSE LET cells == [label_idx \in KeptLabelIdx(self) |->
                 LET indices == self.label_row_indices[label_idx + 1]
                     covered == _covered_by_label_counts(self, label_idx)
                 IN  [j1 \in 1 .. NCols(self) |->
                         Div(covered[j1 - 1], Cardinality(indices))]]
         IN  DataFrame(self.sources, PerLabel(self, cells))

lf_overlaps(self, agg) ==
    LET overlaps == _overlapped_data_points(self)
    IN  IF agg
        THEN DataFrame(self.sources,
                 [r \in {0} |->
                     [j1 \in 1 .. NCols(self) |->
                         nan_to_num(Div(
                             SumAt(overlaps,
                                   {e.r : e \in ColEntries(self, j1 - 1)}),
                             Cardinality(ColEntries(self, j1 - 1))))]])
        ELSE LET cells == [label_idx \in KeptLabelIdx(self) |->
                     LET indices == self.label_row_indices[label_idx + 1]
                         x(j) == {e.r : e \in {d \in ColEntries(self, j) :
                                     d.r \in indices /\ d.v = label_idx}}
                     IN  [j1 \in 1 .. NCols(self) |->
                             nan_to_num(Div(SumAt(overlaps, x(j1 - 1)),
                                            Cardinality(x(j1 - 1))))]]
             IN  DataFrame(self.sources, PerLabel(self, cells))

lf_conflicts(self, agg) ==
    LET conflicts == _conflicted_data_points(self)
    IN  IF agg
        THEN DataFrame(self.sources,
                 [r \in {0} |->
                     [j1 \in 1 .. NCols(self) |->
                         nan_to_num(Div(
                             SumAt(conflicts,
                                   {e.r : e \in ColEntries(self, j1 - 1)}),
                             Cardinality(ColEntries(self, j1 - 1))))]])
        ELSE LET cells == [label_idx \in KeptLabelIdx(self) |->
                     LET indices == self.label_row_indices[label_idx + 1]
                         x(j) == {e.r : e \in {d \in ColEntries(self, j) :
                                     d.r \in indices /\ d.v = label_idx}}
                     IN  [j1 \in 1 .. NCols(self) |->
                             nan_to_num(Div(SumAt(conflicts, x(j1 - 1)),
                                            Cardinality(x(j1 - 1))))]]
             IN  DataFrame(self.sources, PerLabel(self, cells))

\* raise NotImplementedError()
lf_empirical_accuracies(self) == "NotImplementedError"

-----------------------------------------------------------------------------
(* Initialization helpers, lines 322-382.                                  *)
(*                                                                         *)
(* Label strings are split at the first "-" into prefix and base name.     *)

SplitLabel(l) ==
    CASE l = "B-DATE" -> [prefix |-> "B", base |-> "DATE"]
      [] l = "I-DATE" -> [prefix |-> "I", base |-> "DATE"]
      [] OTHER        -> [prefix |-> "", base |-> l]

RECURSIVE RemoveFirst(_, _)
\* list.remove(x): the list without the first occurrence of x
RemoveFirst(list, x) ==
    IF list = <<>> THEN <<>>
    ELSE IF Head(list) = x THEN Tail(list)
    ELSE <<Head(list)>> \o RemoveFirst(Tail(list), x)

\* faulty variant: a missing "O" is appended instead of inserted at 0
force_O_first_append(original_labels) ==
    IF "O" \notin Range(original_labels)
    THEN Append(original_labels, "O")
    ELSE IF original_labels[1] # "O"
    THEN <<"O">> \o RemoveFirst(original_labels, "O")
    ELSE original_labels

\* lines 330-334: the caller's list after "O" was forced to position 0
\* (the list object itself is changed)
force_O_first(original_labels) ==
    IF "O" \notin Range(original_labels)
    THEN <<"O">> \o original_labels
    ELSE IF original_labels[1] # "O"
    THEN <<"O">> \o RemoveFirst(original_labels, "O")
    ELSE original_labels

RECURSIVE index_keys(_, _, _)
\* the keys of label2idx in insertion order: each label, prefix stripped
\* when strip_prefixes, gets the next index the first time it is seen
index_keys(list, strip_prefixes, seen) ==
    IF list = <<>> THEN seen
    ELSE LET name == IF strip_prefixes THEN SplitLabel(Head(list)).base
                                       ELSE Head(list)
         IN  index_keys(Tail(list), strip_prefixes,
                 IF name \in Range(seen) THEN seen ELSE Append(seen, name))

Indexed(seq) == [x \in Range(seq) |-> (CHOOSE k \in DOMAIN seq : seq[k] = x) - 1]

\* utils._index_labels(original_labels, strip_prefixes)
_index_labels(original_labels, strip_prefixes) ==
    [label2idx |-> Indexed(index_keys(original_labels, strip_prefixes, <<>>)),
     keys      |-> index_keys(original_labels, strip_prefixes, <<>>),
     prefixes  |-> {SplitLabel(l).prefix : l \in Range(original_labels)} \ {""},
     labels_without_prefix |->
         {SplitLabel(l).base : l \in Range(original_labels)}]

\* what _get_token_level_labels returns, with the list object as it leaves it
_get_token_level_labels(original_labels, strict_match) ==
    LET list == force_O_first(original_labels)
        ix   == _index_labels(list, ~ strict_match)
    IN  [original_labels |-> list,
         labels |-> ix.keys, label2idx |-> ix.label2idx,
         prefixes |-> ix.prefixes,
         labels_without_prefix |-> ix.labels_without_prefix]

\* A Python set of strings is a hash table: it is iterated in the order of
\* the slots, a slot being the string's hash (seeded once per process) and,
\* for strings that collide, the order of insertion.  A set is modelled by
\* its iteration order; hash maps each name to its slot.
set_add(hash, s, x) ==
    IF x \in Range(s) THEN s
    ELSE LET k == Cardinality({n \in DOMAIN s : hash[s[n]] <= hash[x]})
         IN  SubSeq(s, 1, k) \o <<x>> \o SubSeq(s, k + 1, Len(s))

RECURSIVE set_update(_, _, _)
\* s.update(xs), set(xs) being set_update(hash, <<>>, xs)
set_update(hash, s, xs) ==
    IF xs = <<>> THEN s
    ELSE set_update(hash, set_add(hash, s, Head(xs)), Tail(xs))

RECURSIVE corpus_sources(_, _, _)
\* lines 360-361: corpus_sources.update(set(doc.spans.keys())) per document
corpus_sources(hash, acc, corpus) ==
    IF corpus = <<>> THEN acc
    ELSE corpus_sources(hash,
             set_update(hash, acc, set_update(hash, <<>>, Head(corpus).keys)),
             Tail(corpus))

\* sources is an Optional[List[str]]: [given |-> FALSE] models None
_get_corpus_sources(hash, corpus, sources) ==
    LET result_sources ==
            IF ~ sources.given
            THEN corpus_sources(hash, <<>>, corpus)
            ELSE set_update(hash, <<>>, sources.list)
    IN  [sources |-> result_sources, sources2idx |-> Indexed(result_sources)]

\* utils._spans_to_array: one row per token of the document, one column per
\* source; the cell is the index of the label of the span of that source
\* covering the token (the exact label when prefixes take part, else its
\* base name), and 0 without such a span or such an index
_spans_to_array(doc, sources, label2idx, use_prefixes) ==
    [t1 \in 1 .. doc.ntok |->
        [s1 \in 1 .. Len(sources) |->
            LET src == sources[s1]
                covering ==
                    IF src \in Range(doc.keys)
                    THEN {sp \in doc.spans[src] :
                             sp.start <= t1 - 1 /\ t1 - 1 < sp.end}
                    ELSE {}
            IN  IF covering = {} THEN 0
                ELSE LET sp   == CHOOSE x \in covering : TRUE
                         name == IF use_prefixes THEN sp.label
                                 ELSE SplitLabel(sp.label).base
                     IN  IF name \in DOMAIN label2idx THEN label2idx[name]
                         ELSE 0]]

RECURSIVE concatenate(_)
\* np.concatenate of the documents' blocks, in corpus order
concatenate(blocks) ==
    IF blocks = <<>> THEN <<>>
    ELSE Head(blocks) \o concatenate(Tail(blocks))

\* faulty variant: the blocks are concatenated last document first
_corpus_to_token_array_reversed(corpus, sources, label2idx, strict_match) ==
    concatenate([d \in DOMAIN corpus |->
        _spans_to_array(corpus[Len(corpus) + 1 - d], sources, label2idx,
                        strict_match)])

_corpus_to_token_array(corpus, sources, label2idx, strict_match) ==
    concatenate([d \in DOMAIN corpus |->
        _spans_to_array(corpus[d], sources, label2idx, strict_match)])

-----------------------------------------------------------------------------
(* The engine as __init__ leaves it (lines 38-49).                         *)

WithRowIndices(self) ==
    [self EXCEPT !.label_row_indices = _get_row_indices_with_labels(self)]

\* lines 47-49, from the resolved sources, the indexed labels and the matrix
NewEngine(sources, labels, L) ==
    WithRowIndices(
        [sources |-> sources, sources2idx |-> Indexed(sources),
         labels |-> labels, label2idx |-> Indexed(labels),
         L |-> L, _L_sparse |-> csr_matrix(L),
         label_row_indices |-> <<>>])

\* LFAnalysis(corpus, labels, sources, strict_match) in a process whose
\* string hash is `hash`: the object built, or the error raised, and the
\* caller's label list as the call leaves it.  L.max() of line 430 raises
\* ValueError on a matrix without cells (no source resolved).
__init__(hash, corpus, labels, sources, strict_match) ==
    LET src == _get_corpus_sources(hash, corpus, sources)
        tl  == _get_token_level_labels(labels, strict_match)
        L   == _corpus_to_token_array(corpus, src.sources, tl.label2idx,
                                      strict_match)
    IN  IF Len(src.sources) = 0
        THEN [state |-> "ValueError", self |-> <<>>,
              original_labels |-> tl.original_labels]
        ELSE [state |-> "ok",
              self |-> NewEngine(src.sources, tl.labels, L),
              original_labels |-> tl.original_labels]

\* every matrix with 1..cfg.rows rows, one column per source and entries
\* in [0, num_labels-1]
Matrices(cfg) ==
    UNION {[1 .. n -> [1 .. Len(cfg.sources) -> 0 .. (Len(cfg.labels) - 1)]] :
              n \in 1 .. cfg.rows}

Engines ==
    UNION {{NewEngine(cfg.sources, cfg.labels, L) : L \in Matrices(cfg)} :
              cfg \in Configs}

-----------------------------------------------------------------------------
(* The state machine: one action per public method.                        *)

NoCall == [op |-> "none", agg |-> FALSE, again |-> FALSE]

\* the record of a call: the method, its argument, and whether the call
\* before it was the same one
Called(op, agg) ==
    [op |-> op, agg |-> agg, again |-> call.op = op /\ call.agg = agg]

Init ==
    /\ engine \in Engines
    /\ engine0 = engine
    /\ call = NoCall
    /\ result = None
    /\ env = None
    /\ built = None

\* faulty variant: the loop consumes the cached row index
Call_label_overlap_pop ==
    /\ call' = Called("label_overlap", FALSE)
    /\ result' = label_overlap(engine)
    /\ engine' = [engine EXCEPT !.label_row_indices =
                     SubSeq(@, 1, Len(@) - 1)]
    /\ UNCHANGED <<engine0, env, built>>

Call_label_overlap ==
    /\ call' = Called("label_overlap", FALSE)
    /\ result' = label_overlap(engine)
    /\ UNCHANGED <<engine, engine0, env, built>>

Call_label_conflict ==
    /\ call' = Called("label_conflict", FALSE)
    /\ result' = label_conflict(engine)
    /\ UNCHANGED <<engine, engine0, env, built>>

Call_lf_target_labels ==
    /\ call' = Called("lf_target_labels", FALSE)
    /\ result' = lf_target_labels(engine)
    /\ UNCHANGED <<engine, engine0, env, built>>

Call_lf_coverages(agg) ==
    /\ call' = Called("lf_coverages", agg)
    /\ result' = lf_coverages(engine, agg)
    /\ UNCHANGED <<engine, engine0, env, built>>

Call_lf_overlaps(agg) ==
    /\ call' = Called("lf_overlaps", agg)
    /\ result' = lf_overlaps(engine, agg)
    /\ UNCHANGED <<engine, engine0, env, built>>

Call_lf_conflicts(agg) ==
    /\ call' = Called("lf_conflicts", agg)
    /\ result' = lf_conflicts(engine, agg)
    /\ UNCHANGED <<engine, engine0, env, built>>

Call_lf_empirical_accuracies ==
    /\ call' = Called("lf_empirical_accuracies", FALSE)
    /\ result' = lf_empirical_accuracies(engine)
    /\ UNCHANGED <<engine, engine0, env, built>>

Next ==
    \/ Call_label_overlap
    \/ Call_label_conflict
    \/ Call_lf_target_labels
    \/ \E agg \in BOOLEAN : Call_lf_coverages(agg)
    \/ \E agg \in BOOLEAN : Call_lf_overlaps(agg)
    \/ \E agg \in BOOLEAN : Call_lf_conflicts(agg)
    \/ Call_lf_empirical_accuracies

Spec == Init /\ [][Next]_vars

-----------------------------------------------------------------------------
(* Construction.  The caller holds documents, one label list object, a     *)
(* sources argument and a strict_match flag, and constructs engines from   *)
(* them, in any order, within one process.                                 *)

Names == {"LF1", "LF2"}
NameOrder == <<"LF1", "LF2">>

\* the slots the process's string hash may give the source names
Slots == {0, 1}

\* the spans one source may have put on a document of n tokens: one span
\* (a contiguous token range and a label)
SpansOn(n, labelset) ==
    {[start |-> a, end |-> b, label |-> l] :
        <<a, b, l>> \in {t \in (0 .. (n - 1)) \X (1 .. n) \X labelset :
                            t[1] < t[2]}}

\* the documents of 1..maxtok tokens on which each source of Names is
\* either absent from doc.spans or has one span there
Docs(maxtok, labelset) ==
    UNION {
        {[ntok |-> n,
          keys |-> SelectSeq(NameOrder, LAMBDA x : x \in present),
          spans |-> [x \in present |-> {f[x]}]] :
              f \in [present -> SpansOn(n, labelset)]} :
        <<n, present>> \in (1 .. maxtok) \X (SUBSET Names)}

Unbuilt == [state |-> "unbuilt", self |-> <<>>]

\* env.labels is the caller's list object, env.labels0 its contents
\* when the caller made it (history).

\* one corpus, constructed twice from the same arguments
InitTwice ==
    /\ env \in
        {[hash |-> h, docs |-> [d \in {"A"} |-> A], labels |-> ls,
          labels0 |-> ls, sources |-> src, strict_match |-> sm,
          requests |-> [r \in {"first", "second"} |-> <<"A">>]] :
            <<h, A, ls, src, sm>> \in
                [Names -> Slots]
                \X Docs(MaxTokens - 1, {"B-DATE", "I-DATE"})
                \X {<<"B-DATE", "I-DATE">>, <<"O", "B-DATE", "I-DATE">>,
                    <<"I-DATE", "O", "B-DATE", "O">>}
                \X {[given |-> FALSE, list |-> <<>>],
                    [given |-> TRUE, list |-> <<"LF1">>],
                    [given |-> TRUE, list |-> <<"LF1", "LF2">>],
                    [given |-> TRUE, list |-> <<"LF2", "LF1", "LF2">>]}
                \X BOOLEAN}
    /\ built = [r \in {"first", "second"} |-> Unbuilt]

\* two documents A and B, and the corpora [A], [B] and [A, B]
InitConcat ==
    /\ env \in
        {[hash |-> h, docs |-> [d \in {"A", "B"} |-> IF d = "A" THEN AB[1] ELSE AB[2]],
          labels |-> <<"PER">>, labels0 |-> <<"PER">>,
          sources |-> src, strict_match |-> FALSE,
          requests |-> [r \in {"A", "B", "AB"} |->
                           CASE r = "A" -> <<"A">> [] r = "B" -> <<"B">>
                             [] OTHER -> <<"A", "B">>]] :
            <<h, AB, src>> \in
                [Names -> Slots]
                \X {p \in Docs(MaxTokens - 1, {"PER"})
                          \X Docs(MaxTokens - 1, {"PER"}) :
                       p[1].ntok + p[2].ntok <= MaxTokens}
                \X {[given |-> FALSE, list |-> <<>>],
                    [given |-> TRUE, list |-> <<"LF1">>],
                    [given |-> TRUE, list |-> <<"LF2", "LF1">>]}}
    /\ built = [r \in {"A", "B", "AB"} |-> Unbuilt]

InitBuild ==
    /\ InitTwice \/ InitConcat
    /\ engine = None
    /\ engine0 = None
    /\ call = NoCall
    /\ result = None

\* LFAnalysis(corpus, env.labels, env.sources, env.strict_match)
Construct(r) ==
    /\ built[r].state = "unbuilt"
    /\ LET corpus == [k \in DOMAIN env.requests[r] |->
                         env.docs[env.requests[r][k]]]
           out == __init__(env.hash, corpus, env.labels, env.sources,
                           env.strict_match)
       IN  /\ built' = [built EXCEPT ![r] =
                           [state |-> out.state, self |-> out.self]]
           /\ env' = [env EXCEPT !.labels = out.original_labels]
    /\ UNCHANGED <<engine, engine0, call, result>>

NextBuild == \E r \in DOMAIN built : Construct(r)

SpecBuild == InitBuild /\ [][NextBuild]_vars

-----------------------------------------------------------------------------
(* Reference notions, read off the dense matrix cell by cell.              *)

NonzeroCols(i) == {j \in ColIdx(engine) : At(engine, i, j) # 0}
NonzeroVals(i) == {At(engine, i, j) : j \in NonzeroCols(i)}
RowsWith(v) == {i \in RowIdx(engine) : \E j \in ColIdx(engine) : At(engine, i, j) = v}
RowsLabelledBy(j) == {i \in RowIdx(engine) : At(engine, i, j) # 0}
ColumnVals(j) == {At(engine, i, j) : i \in RowIdx(engine)} \ {0}
Overlapped(i) == Cardinality(NonzeroCols(i)) >= 2
Conflicted(i) == Cardinality(NonzeroVals(i)) >= 2
NonNullIdx == 1 .. (Len(engine.labels) - 1)
Occurring == {v \in NonNullIdx : RowsWith(v) # {}}
LabelName(v) == engine.labels[v + 1]
PerLabelCall ==
    \/ call.op \in {"label_overlap", "label_conflict"}
    \/ call.op \in {"lf_coverages", "lf_overlaps", "lf_conflicts"} /\ ~ call.agg
AggCall ==
    call.op \in {"lf_coverages", "lf_overlaps", "lf_conflicts"} /\ call.agg
AllCells ==
    {result.rows[k][c] : <<k, c>> \in
        {p \in (DOMAIN result.rows) \X (1 .. Len(result.columns)) : TRUE}}

-----------------------------------------------------------------------------
(* Claims.                                                                 *)

\* C1: in every ratio table every cell is a finite number, and a source
\* that labels no token has aggregated coverage, overlap and conflict 0
\* (0/0 resolves to 0, never to NaN or infinity).
C1_ZeroOverZeroIsZero ==
    (PerLabelCall \/ AggCall) =>
        /\ \A x \in AllCells : IsNumber(x)
        /\ AggCall =>
              \A j \in ColIdx(engine) :
                  RowsLabelledBy(j) = {} => IsZero(result.rows[0][j + 1])

\* C2: row i is flagged by _conflicted_data_points exactly when it holds
\* two or more distinct nonzero values; rows whose nonzero entries agree,
\* or with a single nonzero entry, are not flagged, and a flagged row is
\* also flagged by _overlapped_data_points.
C2_ConflictedIffDistinct ==
    call.op = "label_conflict" =>
        \A i \in RowIdx(engine) :
            /\ _conflicted_data_points(engine)[i] = 1 <=> Conflicted(i)
            /\ _conflicted_data_points(engine)[i] \in {0, 1}
            /\ Conflicted(i) => _overlapped_data_points(engine)[i] = 1

C2_Witness ==
    /\ call.op = "label_conflict"
    /\ \E i \in RowIdx(engine) :
          Conflicted(i) /\ _conflicted_data_points(engine)[i] = 1
    /\ \E i \in RowIdx(engine) :
          /\ Cardinality(NonzeroCols(i)) >= 2 /\ Cardinality(NonzeroVals(i)) = 1
          /\ _conflicted_data_points(engine)[i] = 0

\* C3: for every non-"O" label v occurring in L, label_overlap()[v] is
\* (# rows holding v with 2+ nonzero entries) / (# distinct rows holding v)
\* and label_conflict()[v] the same with conflicted rows; both lie in
\* [0, 1]; a row counts once, and row 0 / column 0 counts like any cell.
C3_LabelRatios ==
    call.op \in {"label_overlap", "label_conflict"} =>
        \A v \in Occurring :
            /\ LabelName(v) \in DOMAIN result.rows
            /\ LET x == result.rows[LabelName(v)][1]
                   hit == IF call.op = "label_overlap"
                          THEN {i \in RowsWith(v) : Overlapped(i)}
                          ELSE {i \in RowsWith(v) : Conflicted(i)}
               IN  /\ RatEq(x, Cardinality(hit), Cardinality(RowsWith(v)))
                   /\ RatLeq(Zero, x) /\ RatLeq(x, Rat(1, 1))

C3_Witness ==
    /\ call.op = "label_overlap"
    /\ \E v \in Occurring :
          /\ At(engine, 0, 0) = v
          /\ Cardinality({j \in ColIdx(engine) : At(engine, 0, j) = v}) >= 2
          /\ Cardinality(RowsWith(v)) = 2
          /\ result.rows[LabelName(v)][1] = Rat(1, 2)

\* C4: the rows of every per-label table are exactly the non-"O" labels of
\* the vocabulary that occur in at least one cell of L.
C4_RowSet ==
    PerLabelCall => DOMAIN result.rows = {LabelName(v) : v \in Occurring}

C4_Witness ==
    /\ call.op = "lf_coverages" /\ ~ call.agg
    /\ Occurring = {2}
    /\ Len(engine.labels) = 4
    /\ DOMAIN result.rows = {"ORG"}

\* C5: lf_target_labels() has one entry per source, and the entry of a
\* source is the strictly ascending list of the distinct nonzero values of
\* its column.
C5_TargetLabels ==
    call.op = "lf_target_labels" =>
        /\ DOMAIN result = Range(engine.sources)
        /\ \A j \in ColIdx(engine) :
              LET t == result[engine.sources[j + 1]]
              IN  /\ Range(t) = ColumnVals(j)
                  /\ 0 \notin Range(t)
                  /\ \A k \in 1 .. (Len(t) - 1) : t[k] < t[k + 1]

C5_Witness ==
    /\ call.op = "lf_target_labels"
    /\ NRows(engine) = 2
    /\ result["LF1"] = <<3>>
    /\ RowsLabelledBy(0) = {0, 1}
    /\ result["LF2"] = <<>>

\* the rows holding, in any column, a target label of the source of column j
TargetRows(j) ==
    {i \in RowIdx(engine) :
        \E c \in ColIdx(engine) : At(engine, i, c) \in ColumnVals(j)}

\* C6: for a source that labels at least one token, lf_coverages(agg=True)
\* is (# rows it labels) / (# distinct rows holding, in any column, one of
\* its target labels), and lies in (0, 1].
C6_AggCoverage ==
    (call.op = "lf_coverages" /\ call.agg) =>
        \A j \in ColIdx(engine) :
            RowsLabelledBy(j) # {} =>
                LET x == result.rows[0][j + 1]
                IN  /\ RatEq(x, Cardinality(RowsLabelledBy(j)),
                                Cardinality(TargetRows(j)))
                    /\ ~ IsZero(x) /\ RatLeq(Zero, x) /\ RatLeq(x, Rat(1, 1))

C6_Witness ==
    /\ call.op = "lf_coverages" /\ call.agg
    /\ \E j \in ColIdx(engine) :
          /\ result.rows[0][j + 1] = Rat(1, 2)
          /\ \E i \in TargetRows(j) :
                Cardinality({c \in ColIdx(engine) :
                    At(engine, i, c) \in ColumnVals(j)}) >= 2

\* what a call returns on the engine as __init__ left it
FirstResult(c) ==
    CASE c.op = "label_overlap" -> label_overlap(engine0)
      [] c.op = "label_conflict" -> label_conflict(engine0)
      [] c.op = "lf_target_labels" -> lf_target_labels(engine0)
      [] c.op = "lf_coverages" -> lf_coverages(engine0, c.agg)
      [] c.op = "lf_overlaps" -> lf_overlaps(engine0, c.agg)
      [] c.op = "lf_conflicts" -> lf_conflicts(engine0, c.agg)
      [] c.op = "lf_empirical_accuracies" -> "NotImplementedError"

\* C9: whatever statistics were called, the engine (sources, sources2idx,
\* labels, label2idx, L, its sparse copy, label_row_indices) is as
\* __init__ left it, the last call returned what it returns on that
\* engine, and lf_empirical_accuracies raised NotImplementedError.
C9_CallsLeaveEngine ==
    /\ engine = engine0
    /\ call.op # "none" => result = FirstResult(call)

C9_Witness ==
    /\ call.op = "lf_coverages" /\ call.agg /\ call.again
    /\ result = lf_coverages(engine0, TRUE)
    /\ engine = engine0
    /\ \E i \in RowIdx(engine) : Conflicted(i)

\* C10: a conflicted row is overlapped and an overlapped row is covered,
\* so label_conflict <= label_overlap for every label row and
\* lf_conflicts <= lf_overlaps cell by cell, aggregated or per label.
C10_ConflictBelowOverlap ==
    /\ call.op \in {"label_conflict", "lf_conflicts"} =>
          \A i \in RowIdx(engine) :
              /\ _conflicted_data_points(engine)[i] = 1
                    => _overlapped_data_points(engine)[i] = 1
              /\ _overlapped_data_points(engine)[i] = 1
                    => _covered_data_points(engine)[i] = 1
    /\ call.op = "label_conflict" =>
          \A k \in DOMAIN result.rows :
              RatLeq(result.rows[k][1], label_overlap(engine).rows[k][1])
    /\ call.op = "lf_conflicts" =>
          \A k \in DOMAIN result.rows : \A c \in 1 .. Len(result.columns) :
              RatLeq(result.rows[k][c],
                     lf_overlaps(engine, call.agg).rows[k][c])

C10_Witness ==
    /\ call.op = "lf_conflicts" /\ ~ call.agg
    /\ \E k \in DOMAIN result.rows : \E c \in 1 .. Len(result.columns) :
          /\ result.rows[k][c] = Rat(1, 2)
          /\ lf_overlaps(engine, FALSE).rows[k][c] = Rat(2, 2)

-----------------------------------------------------------------------------
(* Claims about construction.                                              *)

Done(r) == r \in DOMAIN built /\ built[r].state # "unbuilt"
Ok(r) == r \in DOMAIN built /\ built[r].state = "ok"

\* every statistic of an engine
AllStatistics(self) ==
    <<label_overlap(self), label_conflict(self), lf_target_labels(self),
      lf_coverages(self, TRUE), lf_coverages(self, FALSE),
      lf_overlaps(self, TRUE), lf_overlaps(self, FALSE),
      lf_conflicts(self, TRUE), lf_conflicts(self, FALSE)>>

\* C7: two constructions from the same corpus, label list object, sources
\* argument and strict_match end alike, and if they succeed the engines
\* have the same sources, sources2idx, labels, label2idx and L and give
\* the same statistics.
C7_TwiceIdentical ==
    (Done("first") /\ Done("second")) =>
        /\ built["first"].state = built["second"].state
        /\ Ok("first") =>
              /\ built["first"].self = built["second"].self
              /\ AllStatistics(built["first"].self)
                    = AllStatistics(built["second"].self)

C7_Witness ==
    /\ Ok("first") /\ Ok("second")
    /\ env.labels # env.labels0
    /\ ~ env.sources.given
    /\ Len(built["second"].self.sources) = 2
    /\ built["second"].self._L_sparse # {}

AllOk == Ok("A") /\ Ok("B") /\ Ok("AB")

\* C8 as stated: whether the sources are given or omitted, the matrix of
\* [A, B] is the matrix of [A] followed by the matrix of [B].
C8_ConcatBlocks ==
    AllOk => built["AB"].self.L = built["A"].self.L \o built["B"].self.L

\* C8, amended: with the sources given explicitly (or, when omitted, if
\* the three corpora resolve to the same source list) the matrix of
\* [A, B] is the matrix of [A], one row per token of A, followed by the
\* matrix of [B], one row per token of B.
C8_ConcatBlocksSameSources ==
    (/\ AllOk
     /\ \/ env.sources.given
        \/ /\ built["A"].self.sources = built["AB"].self.sources
           /\ built["B"].self.sources = built["AB"].self.sources) =>
        /\ built["AB"].self.L = built["A"].self.L \o built["B"].self.L
        /\ Len(built["A"].self.L) = env.docs["A"].ntok
        /\ Len(built["B"].self.L) = env.docs["B"].ntok

C8_Witness ==
    /\ AllOk
    /\ env.sources.given
    /\ Len(built["AB"].self.sources) = 2
    /\ env.docs["A"].ntok = 2
    /\ built["A"].self.L[1] # built["A"].self.L[2]
    /\ built["B"].self._L_sparse # {}
    /\ built["A"].self.L[2] # built["B"].self.L[1]
    /\ built["AB"].self.L = built["A"].self.L \o built["B"].self.L

=============================================================================
